---- MODULE Spec2Model ----
(***************************************************************************)
(* The request orchestrator of handl (ClientHandl): request, _request,     *)
(* _query, _mutation, _fetch, _resolve, _resolvePendingRequests and        *)
(* _setPendingRequest, with the cache manager (analyze, resolveQuery,      *)
(* resolveMutation, the responses store and the active / pending request   *)
(* registries), the request parser and the executor as collaborators.      *)
(*                                                                         *)
(* JavaScript runs one continuation at a time: every action below is the   *)
(* code that runs between two awaits of one request, and the state between *)
(* two actions is the state at a suspension point.                         *)
(***************************************************************************)
EXTENDS Naturals, Sequences, FiniteSets, TLC

\* Number of request(...) calls made on the client.
NumReq == 3

Req == 1..NumReq

\* Fingerprints (hashRequest) of the documents requested: two query documents
\* and one mutation document.  A fingerprint identifies its document.
QueryHashes == {"q1", "q2"}
MutationHashes == {"m1"}
Hashes == QueryHashes \cup MutationHashes

\* The fingerprint of the one subscription document.
SubscriptionHashes == {"s1"}

OperationOf(h) ==
    IF h \in MutationHashes THEN "mutation"
    ELSE IF h \in SubscriptionHashes THEN "subscription"
    ELSE "query"

\* Response data the executor can return for a document.
Data == {"d1", "d2"}

\* What _fetch rejects with: the executor's rejection, or the errors of its result.
ExecutorErrors == {"ExecutorError"}

NoHash == "-"
NoData == "-"
NoError == "-"
NoMeta == "-"

\* cacheMetadata, abstracted to its "query" entry: "none" is a map without a
\* "query" entry, "cc" a map whose "query" entry came with the response.
\* The executor answers d1 with a "query" entry and d2 without one.
MetaOf(data) == IF data = "d1" THEN "cc" ELSE "none"

VARIABLES
    pc,               \* where each request is suspended
    awaitDataCached,  \* opts.awaitDataCached of a caller that is waiting
    input,            \* what was wrong with the request's arguments or document
    op,               \* context.operation, set once the document is parsed
    hash,             \* queryHash of the request's document
    sequential,       \* whether every earlier request had returned when this one was issued
    cached,           \* _query's cachedResponse
    inhand,           \* analyzeResult / fetchResult / resolveResult in hand
    result,           \* what the caller of request(...) was given
    cache,            \* the request's cache writes and its deferred cachePromise
    execCalls,        \* calls of _requestExecutor.resolve made for the request
    analyseCalls,     \* calls of _cache.analyze made for the request
    active,           \* _cache.requests.active (its keys)
    pending,          \* _cache.requests.pending
    responses,        \* _cache.responses
    tier,             \* _cache.queryPaths and _cache.dataEntities
    delivery,         \* the subscription message in hand and what its handling gave
    clearing,         \* the clearCache call: its outstanding clear() calls
    instance,         \* the module's instance: the client create returns again
    built,            \* clients constructed so far
    creates           \* the create calls: their arguments, client and outcome

vars == <<pc, awaitDataCached, input, op, hash, sequential, cached, inhand, result,
          cache, execCalls, analyseCalls, active, pending, responses, tier, delivery,
          clearing, instance, built, creates>>

\* The state of ClientHandl.create.
createVars == <<instance, built, creates>>

\* What the steps of _query and _mutation leave alone.
reqVars == <<input, op, hash, sequential, delivery, clearing, createVars>>
storeVars == <<responses, tier>>
registryVars == <<active, pending>>

Range(s) == {s[i] : i \in DOMAIN s}

NoResult ==
    [kind |-> "none", data |-> NoData, meta |-> NoMeta, queryHash |-> NoHash,
     error |-> NoError, via |-> "-"]

NoCached == [found |-> FALSE, data |-> NoData, meta |-> NoMeta, readFailed |-> FALSE]

NoRecord == [present |-> FALSE, data |-> NoData, meta |-> NoMeta]

\* No query, and no collaborator call made with what a request has in hand.
NoQuery == [of |-> NoHash, fields |-> "-"]

NoCall == [to |-> "-", query |-> NoQuery, filtered |-> FALSE, queryHash |-> NoHash]

NoInhand == [data |-> NoData, meta |-> NoMeta, analysed |-> "-", cacheControl |-> "-",
             call |-> NoCall]

NoDelivery == [msg |-> "-", pos |-> "idle", out |-> "none"]

\* clearCache has not been called.  todo holds the stores whose clear() is
\* outstanding; clean tells that no cache write was acknowledged since the call.
\* The create calls made over the life of the module.
NumCreate == 3

Calls == 1..NumCreate

\* The module's instance before any create call succeeded.
NoClient == 0

\* A create call that has not been made.
NoCreate ==
    [pos |-> "idle", args |-> [plain |-> FALSE, newInstance |-> FALSE, valid |-> FALSE],
     client |-> NoClient, out |-> "none"]

NotClearing == [state |-> "idle", todo |-> {}, clean |-> TRUE]

Init ==
    /\ pc = [r \in Req |-> "idle"]
    /\ awaitDataCached = [r \in Req |-> FALSE]
    /\ input = [r \in Req |-> "-"]
    /\ op = [r \in Req |-> "-"]
    /\ hash = [r \in Req |-> NoHash]
    /\ sequential = [r \in Req |-> TRUE]
    /\ cached = [r \in Req |-> NoCached]
    /\ inhand = [r \in Req |-> NoInhand]
    /\ result = [r \in Req |-> NoResult]
    /\ cache = [r \in Req |-> "none"]
    /\ execCalls = [r \in Req |-> 0]
    /\ analyseCalls = [r \in Req |-> 0]
    /\ active = {}
    /\ pending = [h \in Hashes |-> <<>>]
    /\ responses = [h \in Hashes |-> NoRecord]
    /\ tier = [h \in Hashes |-> [cov |-> "none", data |-> NoData]]
    /\ delivery = [r \in Req |-> NoDelivery]
    /\ clearing = NotClearing
    /\ instance = NoClient
    /\ built = 0
    /\ creates = [c \in Calls |-> NoCreate]

(***************************************************************************)
(* _request: the argument checks, the parser, validation and dispatch.     *)
(***************************************************************************)

\* The arguments of request(query, opts): "ok", or which of them is malformed:
\* "q" the query is no string, "o" opts is no plain object, "qo" both,
\* "f" opts.fragments is set and is not an array of strings.
RequestArgs == {"ok", "q", "o", "qo", "f"}

\* The rejection of the argument checks, NoError when they pass.
ArgumentError(args) ==
    CASE args = "q" -> "TypeError:query"
      [] args = "o" -> "TypeError:opts"
      [] args = "qo" -> "TypeError:query,opts"
      [] args = "f" -> "TypeError:fragments"
      [] OTHER -> NoError

\* What the parser and the validator make of the document: "syntax" the parser
\* rejects it, "invalid" validate returns errors, "multi" it holds more than one
\* operation definition, "ok" it holds the one operation of fingerprint hash.
Documents ==
    {[class |-> "ok", hash |-> h] : h \in Hashes}
        \cup {[class |-> c, hash |-> "q1"] : c \in {"syntax", "invalid", "multi"}}

C11_RejectionSkipsOperationCount(doc) ==
    CASE doc.class = "syntax" -> "ParseError"
      [] doc.class = "invalid" -> "ValidationError"
      [] OTHER -> NoError

C10_RejectionSkipsValidation(doc) ==
    CASE doc.class = "syntax" -> "ParseError"
      [] doc.class = "multi" -> "TypeError:operations"
      [] OTHER -> NoError

\* The rejection _request raises before it dispatches, NoError when it dispatches.
RequestRejection(doc) ==
    CASE doc.class = "syntax" -> "ParseError"
      [] doc.class = "invalid" -> "ValidationError"
      [] doc.class = "multi" -> "TypeError:operations"
      [] OTHER -> NoError

C8_EveryOperationIsAQuery(operation) == "_query"

\* this._subscriptionsEnabled: the client was created with a subscriber.
SubscriptionsEnabled == TRUE

\* The handler _resolveRequestOperation hands the request to.
ResolveRequestOperation(operation) ==
    CASE operation = "query" -> "_query"
      [] operation = "mutation" -> "_mutation"
      [] operation = "subscription" /\ SubscriptionsEnabled -> "_subscription"
      [] OTHER -> "reject"

Rejected(error, via) ==
    [kind |-> "err", data |-> NoData, meta |-> NoMeta, queryHash |-> NoHash,
     error |-> error, via |-> via]

\* request(query, opts): the argument checks, then the call of the parser.
Request(r, args) ==
    /\ pc[r] = "idle"
    /\ \A s \in Req : s < r => pc[s] # "idle"
    /\ input' = [input EXCEPT ![r] = args]
    /\ sequential' = [sequential EXCEPT ![r] = \A s \in Req : pc[s] \in {"idle", "done"}]
    /\ IF ArgumentError(args) # NoError
          THEN /\ pc' = [pc EXCEPT ![r] = "done"]
               /\ result' = [result EXCEPT ![r] = Rejected(ArgumentError(args), "request")]
          ELSE /\ pc' = [pc EXCEPT ![r] = "parse"]
               /\ UNCHANGED result
    /\ UNCHANGED <<awaitDataCached, op, hash, cached, inhand, cache, execCalls,
                   analyseCalls, registryVars, storeVars, delivery, clearing, createVars>>

\* The parser has answered: validation, the operation count, and the dispatch,
\* which runs the handler up to its first await (_query: responses.has;
\* _mutation: the executor call of _fetch; _subscription: the subscriber call).
Parse(r, doc) ==
    /\ pc[r] = "parse"
    /\ input' = [input EXCEPT ![r] = doc.class]
    /\ IF RequestRejection(doc) # NoError
          THEN /\ pc' = [pc EXCEPT ![r] = "done"]
               /\ result' = [result EXCEPT ![r] = Rejected(RequestRejection(doc), "request")]
               /\ UNCHANGED <<op, hash, execCalls>>
          ELSE /\ op' = [op EXCEPT ![r] = OperationOf(doc.hash)]
               /\ hash' = [hash EXCEPT ![r] = doc.hash]
               /\ LET handler == ResolveRequestOperation(OperationOf(doc.hash)) IN
                    CASE handler = "_query" ->
                            /\ pc' = [pc EXCEPT ![r] = "has"]
                            /\ UNCHANGED <<result, execCalls>>
                      [] handler = "_mutation" ->
                            /\ pc' = [pc EXCEPT ![r] = "mfetch"]
                            /\ execCalls' = [execCalls EXCEPT ![r] = @ + 1]
                            /\ UNCHANGED result
                      [] handler = "_subscription" ->
                            /\ pc' = [pc EXCEPT ![r] = "subscribe"]
                            /\ UNCHANGED <<result, execCalls>>
                      [] OTHER ->
                            /\ pc' = [pc EXCEPT ![r] = "done"]
                            /\ result' = [result EXCEPT ![r] = Rejected("Error:operation", "request")]
                            /\ UNCHANGED execCalls
    /\ UNCHANGED <<awaitDataCached, sequential, cached, inhand, cache, analyseCalls,
                   registryVars, storeVars, delivery, clearing, createVars>>


(***************************************************************************)
(* _resolve and _resolvePendingRequests.                                   *)
(***************************************************************************)

\* _defaultCacheControls, by operation.
DefaultCacheControls(operation) ==
    CASE operation = "query" -> "default:query"
      [] operation = "mutation" -> "default:mutation"
      [] OTHER -> "default:subscription"

C27_KeepsMetadataAsGiven(meta, operation) == meta

\* _resolve gives a cacheMetadata without a "query" entry the default one.
WithDefaultQuery(meta, operation) ==
    IF meta = "none" THEN DefaultCacheControls(operation) ELSE meta

\* The output of _resolve for the caller it returns to.
Output(meta, data, queryHash, via) ==
    [kind |-> "ok", data |-> data, meta |-> meta, queryHash |-> queryHash,
     error |-> NoError, via |-> via]

C2_PendingResultWithoutHash(queryHash, meta, data) ==
    [kind |-> "ok", data |-> data, meta |-> meta, queryHash |-> NoHash,
     error |-> NoError, via |-> "coalesced"]

\* What _resolvePendingRequests resolves a pending caller with.
PendingResult(queryHash, meta, data) ==
    [kind |-> "ok", data |-> data, meta |-> meta, queryHash |-> queryHash,
     error |-> NoError, via |-> "coalesced"]

C17_PendingRejectionWithData(error) ==
    [kind |-> "err", data |-> "d1", meta |-> NoMeta, queryHash |-> NoHash,
     error |-> error, via |-> "coalesced"]

\* What _resolvePendingRequests rejects a pending caller with.
PendingRejection(error) ==
    [kind |-> "err", data |-> NoData, meta |-> NoMeta, queryHash |-> NoHash,
     error |-> error, via |-> "coalesced"]

C25_EveryPendingCallerWaiting(queryHash) ==
    IF queryHash = NoHash THEN {} ELSE UNION {Range(pending[h]) : h \in Hashes}

\* The callers _resolvePendingRequests settles for queryHash.
Waiting(queryHash) == IF queryHash = NoHash THEN {} ELSE Range(pending[queryHash])

\* _resolve(args) called by request r: the pending callers of queryHash are
\* settled like r and both registry entries deleted (when resolvePending and
\* queryHash are set), then r is rejected with error or given the output.
\* With an output that holds a cachePromise and with opts.awaitDataCached set,
\* _request then awaits the cachePromise before it returns.
Resolve(r, meta0, data, error, operation, queryHash, resolvePending, via, awaits) ==
    LET meta == IF meta0 = NoMeta THEN NoMeta ELSE WithDefaultQuery(meta0, operation)
        drained == IF resolvePending THEN Waiting(queryHash) ELSE {}
        mine == IF error # NoError
                   THEN Rejected(error, via)
                   ELSE Output(meta, data, queryHash, via)
    IN  /\ result' = [s \in Req |->
                        IF s = r THEN mine
                        ELSE IF s \in drained
                                THEN IF error # NoError
                                        THEN PendingRejection(error)
                                        ELSE PendingResult(queryHash, meta, data)
                                ELSE result[s]]
        /\ pc' = [s \in Req |->
                        IF s = r THEN (IF error = NoError /\ awaits THEN "await" ELSE "done")
                        ELSE IF s \in drained THEN "done" ELSE pc[s]]
        /\ awaitDataCached' = [s \in Req |->
                        IF s = r THEN error = NoError /\ awaits
                        ELSE IF s \in drained THEN FALSE ELSE awaitDataCached[s]]
        /\ IF resolvePending /\ queryHash # NoHash
              THEN /\ pending' = [pending EXCEPT ![queryHash] = <<>>]
                   /\ active' = active \ {queryHash}
              ELSE UNCHANGED <<active, pending>>

\* An error thrown inside _query or _mutation outside their try blocks: it
\* reaches the catch of _request, which rejects; _resolve is not called.
Thrown(r, error, via) ==
    /\ result' = [result EXCEPT ![r] = Rejected(error, via)]
    /\ pc' = [pc EXCEPT ![r] = "done"]
    /\ UNCHANGED <<active, pending, awaitDataCached>>


(***************************************************************************)
(* _checkResponseCache and _query.                                         *)
(***************************************************************************)

\* _cache.isValid of the cacheability responses.has answers with: there is a
\* record and its cacheability has not expired by now.
IsValid(record, expired) == record.present /\ ~expired

C13_ReadFailureAsEmptyResponse ==
    [found |-> TRUE, data |-> NoData, meta |-> NoMeta, readFailed |-> TRUE]

\* What _checkResponseCache returns when responses.has or responses.get threw:
\* the catch returns undefined, no cached response.
ReadFailure == [found |-> FALSE, data |-> NoData, meta |-> NoMeta, readFailed |-> TRUE]

\* responses.has has answered: a valid cacheability is followed by
\* responses.get; no record, an expired one, or a throw of the store (which
\* _checkResponseCache catches) is a miss.
CheckHas(r, expired, storeFails) ==
    /\ pc[r] = "has"
    /\ IF ~storeFails /\ IsValid(responses[hash[r]], expired)
          THEN pc' = [pc EXCEPT ![r] = "get"]
          ELSE pc' = [pc EXCEPT ![r] = "checked"]
    /\ cached' = [cached EXCEPT ![r] = IF storeFails THEN ReadFailure ELSE NoCached]
    /\ UNCHANGED <<reqVars, awaitDataCached, inhand, result, cache, execCalls,
                   analyseCalls, registryVars, storeVars>>

\* responses.get has answered: the entry, rehydrated, is the cached response; a
\* throw, or an entry the store has evicted by now, is caught and taken as a miss.
CheckGet(r, evicted, storeFails) ==
    /\ pc[r] = "get"
    /\ pc' = [pc EXCEPT ![r] = "checked"]
    /\ cached' = [cached EXCEPT ![r] =
                    IF storeFails
                       THEN ReadFailure
                       ELSE IF ~evicted /\ responses[hash[r]].present
                               THEN [found |-> TRUE, data |-> responses[hash[r]].data,
                                     meta |-> responses[hash[r]].meta, readFailed |-> FALSE]
                               ELSE NoCached]
    /\ UNCHANGED <<reqVars, awaitDataCached, inhand, result, cache, execCalls,
                   analyseCalls, registryVars, storeVars>>

C6_NeverServeFromResponseCache(cachedResponse) == FALSE

\* if (cachedResponse): the response cache check was a hit.
ServeFromResponseCache(cachedResponse) == cachedResponse.found

C20_HitResolvesPending == TRUE

\* resolvePending in the _resolve call of a response cache hit.
ResolvePendingOnHit == FALSE

\* _query after _checkResponseCache, with a cached response: it is returned
\* through _resolve with resolvePending false.
QueryCached(r) ==
    /\ pc[r] = "checked"
    /\ ServeFromResponseCache(cached[r])
    /\ Resolve(r, cached[r].meta, cached[r].data, NoError, "query", hash[r],
               ResolvePendingOnHit, "responses", FALSE)
    /\ cached' = [cached EXCEPT ![r] = NoCached]
    /\ UNCHANGED <<reqVars, inhand, cache, execCalls, analyseCalls, storeVars>>

C23_JoinsWhateverIsActive(r, adc) ==
    /\ pc[r] = "checked"
    /\ ~ServeFromResponseCache(cached[r])
    /\ pending' = [pending EXCEPT ![hash[r]] = Append(@, r)]
    /\ pc' = [pc EXCEPT ![r] = "pending"]
    /\ awaitDataCached' = [awaitDataCached EXCEPT ![r] = adc]
    /\ cached' = [cached EXCEPT ![r] = NoCached]
    /\ UNCHANGED <<reqVars, active, inhand, result, cache, execCalls, analyseCalls,
                   storeVars>>

C24_AnalyzesInsteadOfJoining(r, adc) ==
    /\ pc[r] = "checked"
    /\ ~ServeFromResponseCache(cached[r])
    /\ hash[r] \in active
    /\ analyseCalls' = [analyseCalls EXCEPT ![r] = @ + 1]
    /\ pc' = [pc EXCEPT ![r] = "analyze"]
    /\ cached' = [cached EXCEPT ![r] = NoCached]
    /\ UNCHANGED <<reqVars, awaitDataCached, registryVars, inhand, result, cache,
                   execCalls, storeVars>>

\* _query after _checkResponseCache, without one, and queryHash is active: the
\* caller joins the pending list of queryHash (_setPendingRequest).
QueryJoins(r, adc) ==
    /\ pc[r] = "checked"
    /\ ~ServeFromResponseCache(cached[r])
    /\ hash[r] \in active
    /\ pending' = [pending EXCEPT ![hash[r]] = Append(@, r)]
    /\ pc' = [pc EXCEPT ![r] = "pending"]
    /\ awaitDataCached' = [awaitDataCached EXCEPT ![r] = adc]
    /\ cached' = [cached EXCEPT ![r] = NoCached]
    /\ UNCHANGED <<reqVars, active, inhand, result, cache, execCalls, analyseCalls,
                   storeVars>>

C16_FetchBeforeAnalyse(r) ==
    /\ pc[r] = "checked"
    /\ ~cached[r].found
    /\ hash[r] \notin active
    /\ active' = active \cup {hash[r]}
    /\ execCalls' = [execCalls EXCEPT ![r] = @ + 1]
    /\ inhand' = [inhand EXCEPT ![r] = [data |-> NoData, meta |-> NoMeta, analysed |-> "miss",
                     cacheControl |-> "-", call |-> NoCall]]
    /\ pc' = [pc EXCEPT ![r] = "fetch"]
    /\ cached' = [cached EXCEPT ![r] = NoCached]
    /\ UNCHANGED <<reqVars, awaitDataCached, pending, result, cache, analyseCalls,
                   storeVars>>

\* _query after _checkResponseCache, without one, and queryHash is not active:
\* the caller marks it active and calls analyze.
QueryAnalyzes(r) ==
    /\ pc[r] = "checked"
    /\ ~ServeFromResponseCache(cached[r])
    /\ hash[r] \notin active
    /\ active' = active \cup {hash[r]}
    /\ analyseCalls' = [analyseCalls EXCEPT ![r] = @ + 1]
    /\ pc' = [pc EXCEPT ![r] = "analyze"]
    /\ cached' = [cached EXCEPT ![r] = NoCached]
    /\ UNCHANGED <<reqVars, awaitDataCached, pending, inhand, result, cache, execCalls,
                   storeVars>>

\* What analyze can answer for queryHash given the query-path and data-entity
\* tiers: "full" needs every field cached, "partial" some field cached; entries
\* whose cacheability is no longer valid count as absent.
AnalyseAnswers(queryHash) ==
    CASE tier[queryHash].cov = "full" -> {"full", "partial"}
      [] tier[queryHash].cov = "partial" -> {"partial"}
      [] OTHER -> {"miss"}

\* analyze rejected: nothing in _query catches it.
AnalyzeThrows(r) ==
    /\ pc[r] = "analyze"
    /\ Thrown(r, "AnalyzeError", "analyze")
    /\ UNCHANGED <<reqVars, cached, inhand, cache, execCalls, analyseCalls, storeVars>>

\* queryCacheability.printCacheControl() of cacheMetadata.get("query"): the
\* directives of the entry as a string, empty for an entry without directives.
PrintCacheControl(meta) == IF meta = "cc" THEN "cc" ELSE ""

C21_AlwaysDefaultCacheControl(meta) == DefaultCacheControls("query")

\* The cacheControl of the short-circuit write: the printed "query" entry of
\* the analysed cacheMetadata, or the default query cache control when the
\* entry is missing or prints empty.
ShortCircuitCacheControl(meta) ==
    LET queryCacheability == meta \notin {"none", NoMeta}
        printed == IF queryCacheability THEN PrintCacheControl(meta) ELSE ""
    IN  IF printed # "" THEN printed ELSE DefaultCacheControls("query")

\* analyze answered with cachedData and cacheMetadata: the write of the response
\* record is started and the cached data returned through _resolve.
AnalyzeHit(r, adc) ==
    /\ pc[r] = "analyze"
    /\ "full" \in AnalyseAnswers(hash[r])
    /\ inhand' = [inhand EXCEPT ![r] =
                    [data |-> tier[hash[r]].data, meta |-> MetaOf(tier[hash[r]].data),
                     analysed |-> "-",
                     cacheControl |-> ShortCircuitCacheControl(MetaOf(tier[hash[r]].data)),
                     call |-> NoCall]]
    /\ cache' = [cache EXCEPT ![r] = "responses.set"]
    /\ Resolve(r, MetaOf(tier[hash[r]].data), tier[hash[r]].data, NoError, "query",
               hash[r], TRUE, "analyze", adc)
    /\ UNCHANGED <<reqVars, cached, execCalls, analyseCalls, storeVars>>

\* The query of a request, as parsed, and its hash.
Query(r) == [of |-> hash[r], fields |-> "all"]

\* hashRequest(query): the hash of a query of the model's documents, and another
\* value for a query that analyze has pruned.
HashRequest(query) == IF query.fields = "all" THEN query.of ELSE "pruned"

\* updatedQuery of the analyzeResult: the query pruned to its missing fields
\* when some fields were served from the cache.
UpdatedQuery(r, answer) ==
    IF answer = "partial" THEN [of |-> hash[r], fields |-> "missing"] ELSE Query(r)

\* filtered of the analyzeResult.
Filtered(answer) == answer = "partial"

\* _fetch(_updateQuery, _updateAST, opts, context): the executor's request.
FetchCall(r, answer) ==
    [to |-> "executor", query |-> UpdatedQuery(r, answer), filtered |-> FALSE,
     queryHash |-> NoHash]

C22_ResolveUnderHashOfUpdatedQuery(r) ==
    [to |-> "resolveQuery", query |-> inhand[r].call.query,
     filtered |-> Filtered(inhand[r].analysed),
     queryHash |-> HashRequest(inhand[r].call.query)]

\* resolveQuery(_updateQuery, _updateAST, queryHash, fetchResult.data, ...,
\* { filtered: _filterd }): the query fetched, under the hash of the request.
ResolveQueryCall(r) ==
    [to |-> "resolveQuery", query |-> UpdatedQuery(r, inhand[r].analysed),
     filtered |-> Filtered(inhand[r].analysed), queryHash |-> hash[r]]

\* analyze answered with a rewritten query: _fetch calls the executor with it.
AnalyzeMiss(r, answer) ==
    /\ pc[r] = "analyze"
    /\ answer \in AnalyseAnswers(hash[r]) \ {"full"}
    /\ inhand' = [inhand EXCEPT ![r] = [data |-> NoData, meta |-> NoMeta, analysed |-> answer,
                     cacheControl |-> "-", call |-> FetchCall(r, answer)]]
    /\ execCalls' = [execCalls EXCEPT ![r] = @ + 1]
    /\ pc' = [pc EXCEPT ![r] = "fetch"]
    /\ UNCHANGED <<reqVars, awaitDataCached, cached, result, cache, analyseCalls,
                   registryVars, storeVars>>

C12_ResolveAfterFetchError(handler) ==
    IF handler = "_mutation" THEN "resolveMutation" ELSE "resolveQuery"

\* The cache manager call a handler makes once its _fetch has rejected: none,
\* the catch returns through _resolve at once.
CacheCallAfterFetchError(handler) == "none"

C3_FetchErrorWithoutQueryHash(queryHash) == NoHash

\* The queryHash _query passes to _resolve in the catch of its _fetch.
FetchErrorQueryHash(queryHash) == queryHash

\* The executor rejected, or its result carries errors: _fetch rejects and the
\* catch of _query resolves the request with the error.
QueryFetchFails(r, error) ==
    /\ pc[r] = "fetch"
    /\ Resolve(r, NoMeta, NoData, error, "query", FetchErrorQueryHash(hash[r]), TRUE,
               "fetch", FALSE)
    /\ cache' = [cache EXCEPT ![r] = CacheCallAfterFetchError("_query")]
    /\ UNCHANGED <<reqVars, cached, inhand, execCalls, analyseCalls, storeVars>>

\* The executor answered: resolveQuery is called with the data and the
\* cacheMetadata made of the answer.
QueryFetched(r, data) ==
    /\ pc[r] = "fetch"
    /\ inhand' = [inhand EXCEPT ![r].data = data, ![r].meta = MetaOf(data),
                                ![r].call = ResolveQueryCall(r)]
    /\ pc' = [pc EXCEPT ![r] = "resolve"]
    /\ UNCHANGED <<reqVars, awaitDataCached, cached, result, cache, execCalls,
                   analyseCalls, registryVars, storeVars>>

C7_AlwaysResolveQuery(handler) == "resolveQuery"

\* The cache manager method a handler resolves its fetched data with.
ResolveCall(handler) ==
    IF handler = "_mutation" THEN "resolveMutation" ELSE "resolveQuery"

\* resolveQuery rejected: nothing in _query catches it.
ResolveQueryThrows(r) ==
    /\ pc[r] = "resolve"
    /\ Thrown(r, "ResolveError", "resolve")
    /\ inhand' = [inhand EXCEPT ![r] = NoInhand]
    /\ UNCHANGED <<reqVars, cached, cache, execCalls, analyseCalls, storeVars>>

\* resolveQuery answered with the shaped data, its cache writes still to be
\* acknowledged: the data is returned through _resolve.
ResolveQuery(r, adc) ==
    /\ pc[r] = "resolve"
    /\ cache' = [cache EXCEPT ![r] = ResolveCall("_query")]
    /\ inhand' = [inhand EXCEPT ![r].analysed = "-", ![r].call = NoCall]
    /\ Resolve(r, inhand[r].meta, inhand[r].data, NoError, "query", hash[r], TRUE,
               "fetch", adc)
    /\ UNCHANGED <<reqVars, cached, execCalls, analyseCalls, storeVars>>

(***************************************************************************)
(* _mutation.                                                              *)
(***************************************************************************)

C26_MutationResolvesUnderItsHash(r) == hash[r]

\* The queryHash of the _resolve calls of _mutation: they pass none.
MutationQueryHash(r) == NoHash

\* The executor failed: the catch of _mutation resolves with the error and no
\* queryHash.
MutationFetchFails(r, error) ==
    /\ pc[r] = "mfetch"
    /\ Resolve(r, NoMeta, NoData, error, "mutation", MutationQueryHash(r), TRUE,
               "fetch", FALSE)
    /\ cache' = [cache EXCEPT ![r] = CacheCallAfterFetchError("_mutation")]
    /\ UNCHANGED <<reqVars, cached, inhand, execCalls, analyseCalls, storeVars>>

\* The executor answered: resolveMutation is called.
MutationFetched(r, data) ==
    /\ pc[r] = "mfetch"
    /\ inhand' = [inhand EXCEPT ![r].data = data, ![r].meta = MetaOf(data)]
    /\ pc' = [pc EXCEPT ![r] = "mresolve"]
    /\ UNCHANGED <<reqVars, awaitDataCached, cached, result, cache, execCalls,
                   analyseCalls, registryVars, storeVars>>

\* resolveMutation rejected: nothing in _mutation catches it.
ResolveMutationThrows(r) ==
    /\ pc[r] = "mresolve"
    /\ Thrown(r, "ResolveError", "resolve")
    /\ inhand' = [inhand EXCEPT ![r] = NoInhand]
    /\ UNCHANGED <<reqVars, cached, cache, execCalls, analyseCalls, storeVars>>

\* resolveMutation answered: the data is returned through _resolve, without a
\* queryHash.
ResolveMutation(r, adc) ==
    /\ pc[r] = "mresolve"
    /\ cache' = [cache EXCEPT ![r] = ResolveCall("_mutation")]
    /\ Resolve(r, inhand[r].meta, inhand[r].data, NoError, "mutation",
               MutationQueryHash(r), TRUE, "fetch", adc)
    /\ UNCHANGED <<reqVars, cached, inhand, execCalls, analyseCalls, storeVars>>

(***************************************************************************)
(* The cache writes of a request, and the cachePromise.                    *)
(***************************************************************************)

\* Whether the writes started by call include one to the responses store.
WritesResponses(call) == call \in {"resolveQuery", "responses.set"}

\* The query whose cached entities the mutation document writes to.
MutatedQuery == "q1"

\* The tiers once the writes started by call for request r are in.
TierAfter(r, call) ==
    CASE call = "resolveQuery" ->
            [tier EXCEPT ![hash[r]] = [cov |-> "full", data |-> inhand[r].data]]
      [] call \in {"resolveMutation", "resolveSubscription"} ->
            [tier EXCEPT ![MutatedQuery] =
                IF tier[MutatedQuery].cov = "full"
                   THEN [cov |-> "full", data |-> inhand[r].data]
                   ELSE [cov |-> "partial", data |-> NoData]]
      [] OTHER -> tier

\* The stores acknowledge the writes of request r, which resolves its deferred
\* cachePromise.
CacheAck(r) ==
    /\ cache[r] \in {"resolveQuery", "resolveMutation", "resolveSubscription",
                    "responses.set"}
    /\ cache' = [cache EXCEPT ![r] = "done"]
    /\ responses' =
          IF WritesResponses(cache[r])
             THEN [responses EXCEPT ![hash[r]] =
                      [present |-> TRUE, data |-> inhand[r].data, meta |-> inhand[r].meta]]
             ELSE responses
    /\ tier' = TierAfter(r, cache[r])
    /\ inhand' = [inhand EXCEPT ![r] = NoInhand]
    /\ clearing' = [clearing EXCEPT !.clean = @ /\ clearing.todo = {}]
    /\ UNCHANGED <<input, op, hash, sequential, delivery, awaitDataCached, pc, cached,
                   result, execCalls, analyseCalls, registryVars, createVars>>

\* The state of the deferred cachePromise of a request, by the state of its
\* cache writes: "dropped" is a write that threw, after which the finally of
\* the write calls deferred.resolve() like after a write that went through.
CachePromise(writes) ==
    CASE writes = "none" -> "none"
      [] writes \in {"done", "dropped"} -> "resolved"
      [] OTHER -> "pending"

C14_ResponseSetFailureRejects(r) ==
    /\ cache[r] = "responses.set"
    /\ cache' = [cache EXCEPT ![r] = "dropped"]
    /\ inhand' = [inhand EXCEPT ![r] = NoInhand]
    /\ result' = [result EXCEPT ![r] = Rejected("StoreError", "responses.set")]
    /\ pc' = [pc EXCEPT ![r] = "done"]
    /\ awaitDataCached' = [awaitDataCached EXCEPT ![r] = FALSE]
    /\ UNCHANGED <<reqVars, cached, execCalls, analyseCalls, registryVars, storeVars>>

\* responses.set of the analyse short-circuit failed: the error is dropped and
\* the deferred cachePromise resolved all the same.
ResponseSetFails(r) ==
    /\ cache[r] = "responses.set"
    /\ cache' = [cache EXCEPT ![r] = "dropped"]
    /\ inhand' = [inhand EXCEPT ![r] = NoInhand]
    /\ UNCHANGED <<reqVars, awaitDataCached, pc, cached, result, execCalls, analyseCalls,
                   registryVars, storeVars>>

\* _request, awaiting the cachePromise of its output: it has resolved.
AwaitCachePromise(r) ==
    /\ pc[r] = "await"
    /\ CachePromise(cache[r]) = "resolved"
    /\ pc' = [pc EXCEPT ![r] = "done"]
    /\ awaitDataCached' = [awaitDataCached EXCEPT ![r] = FALSE]
    /\ UNCHANGED <<reqVars, cached, inhand, result, cache, execCalls, analyseCalls,
                   registryVars, storeVars>>

(***************************************************************************)
(* clearCache.                                                             *)
(***************************************************************************)

C19_ClearSkipsResponses == {"queryPaths", "dataEntities"}

\* The stores clearCache calls clear() on.
ClearedStores == {"queryPaths", "dataEntities", "responses"}

clearFrame == <<pc, awaitDataCached, input, op, hash, sequential, cached, inhand,
                result, cache, execCalls, analyseCalls, registryVars, delivery,
                createVars>>

\* clearCache(): the three clear() calls are made and awaited together.
ClearCache ==
    /\ clearing.state = "idle"
    /\ clearing' = [state |-> "run", todo |-> ClearedStores, clean |-> TRUE]
    /\ UNCHANGED <<clearFrame, storeVars>>

\* A store without its entries.  The query-path and data-entity tiers serve a
\* field only when both hold it.
Emptied(store) ==
    IF store = "responses"
       THEN <<[h \in Hashes |-> NoRecord], tier>>
       ELSE <<responses, [h \in Hashes |-> [cov |-> "none", data |-> NoData]]>>

\* The clear() of a store is done; clearCache returns after the last one.
ClearAck(store) ==
    /\ store \in clearing.todo
    /\ responses' = Emptied(store)[1]
    /\ tier' = Emptied(store)[2]
    /\ clearing' = [clearing EXCEPT
                        !.todo = @ \ {store},
                        !.state = IF @ = "run" /\ clearing.todo = {store} THEN "done" ELSE @]
    /\ UNCHANGED clearFrame

(***************************************************************************)
(* _subscription and _resolveSubscriber.                                   *)
(***************************************************************************)

\* Number of subscriptions the client opens.
MaxSubscriptions == 1

SubscriptionDocuments == {[class |-> "ok", hash |-> h] : h \in SubscriptionHashes}

\* What the subscriber hands to _resolveSubscriber, or answers the subscribe
\* call with: "data" an object with data, "errors" one whose errors field is an
\* array of Error instances, "plainErrors" one whose errors field holds no
\* Error instance, "notObject" something that is no plain object.
Messages == {"data", "errors", "plainErrors", "notObject"}

\* The data a message carries.
MessageData == "d2"

\* The checks at the head of _resolveSubscriber: the error it resolves the
\* message with, NoError when it goes on to resolveSubscription.
SubscriberCheck(msg) ==
    CASE msg = "notObject" -> "TypeError:result"
      [] msg = "errors" -> "MessageErrors"
      [] OTHER -> NoError

\* What the steps of _subscription and _resolveSubscriber leave alone.
subFrame == <<input, op, hash, sequential, cached, execCalls, analyseCalls,
              registryVars, storeVars, clearing, createVars>>

\* The promise of _resolveSubscriber settles: for the caller of request when
\* the message was the answer of the subscribe call, else for the consumer of
\* the subscription's iterator.
Deliver(r, out) ==
    IF pc[r] = "sresult"
       THEN /\ result' = [result EXCEPT ![r] = out]
            /\ pc' = [pc EXCEPT ![r] = "done"]
            /\ delivery' = [delivery EXCEPT ![r] = NoDelivery]
       ELSE /\ delivery' = [delivery EXCEPT ![r].pos = "done", ![r].out = out.kind]
            /\ UNCHANGED <<result, pc>>

SubscriberOutput ==
    Output(WithDefaultQuery(MetaOf(MessageData), "subscription"), MessageData, NoHash,
           "subscription")

\* _resolveSubscriber up to its first await: a message that fails a check is
\* resolved with the error through _resolve, which rejects; for another one
\* resolveSubscription is called.
ResolveSubscriber(r, msg, toRequest) ==
    IF SubscriberCheck(msg) # NoError
       THEN IF toRequest
               THEN /\ result' = [result EXCEPT ![r] = Rejected(SubscriberCheck(msg), "subscription")]
                    /\ pc' = [pc EXCEPT ![r] = "done"]
                    /\ UNCHANGED delivery
               ELSE /\ delivery' = [delivery EXCEPT ![r] =
                                        [msg |-> msg, pos |-> "done", out |-> "err"]]
                    /\ UNCHANGED <<result, pc>>
       ELSE /\ delivery' = [delivery EXCEPT ![r] =
                                [msg |-> msg, pos |-> "resolve", out |-> "none"]]
            /\ pc' = [pc EXCEPT ![r] = IF toRequest THEN "sresult" ELSE @]
            /\ UNCHANGED result

\* The subscribe call rejected: the catch of _subscription resolves with the error.
SubscribeFails(r) ==
    /\ pc[r] = "subscribe"
    /\ result' = [result EXCEPT ![r] = Rejected("SubscriberError", "subscribe")]
    /\ pc' = [pc EXCEPT ![r] = "done"]
    /\ UNCHANGED <<subFrame, awaitDataCached, inhand, cache, delivery>>

\* The subscribe call answered with an async iterator, which request returns.
SubscribeStream(r) ==
    /\ pc[r] = "subscribe"
    /\ result' = [result EXCEPT ![r] =
                    [kind |-> "stream", data |-> NoData, meta |-> NoMeta,
                     queryHash |-> NoHash, error |-> NoError, via |-> "subscribe"]]
    /\ pc' = [pc EXCEPT ![r] = "done"]
    /\ UNCHANGED <<subFrame, awaitDataCached, inhand, cache, delivery>>

\* The subscribe call answered with an execution result: with an errors field
\* the request is rejected with them, else the result goes to _resolveSubscriber.
SubscribeResult(r, msg) ==
    /\ pc[r] = "subscribe"
    /\ IF msg \in {"errors", "plainErrors"}
          THEN /\ result' = [result EXCEPT ![r] = Rejected("MessageErrors", "subscribe")]
               /\ pc' = [pc EXCEPT ![r] = "done"]
               /\ UNCHANGED delivery
          ELSE ResolveSubscriber(r, msg, TRUE)
    /\ UNCHANGED <<subFrame, awaitDataCached, inhand, cache>>

\* The subscriber calls back with a message of the subscription of r.
Message(r, msg) ==
    /\ result[r].kind = "stream"
    /\ delivery[r].pos \in {"idle", "done"}
    /\ CachePromise(cache[r]) # "pending"
    /\ ResolveSubscriber(r, msg, FALSE)
    /\ UNCHANGED <<subFrame, awaitDataCached, inhand, cache>>

\* resolveSubscription rejected: so does _resolveSubscriber.
ResolveSubscriptionThrows(r) ==
    /\ delivery[r].pos = "resolve"
    /\ Deliver(r, Rejected("ResolveError", "resolve"))
    /\ UNCHANGED <<subFrame, awaitDataCached, inhand, cache>>

\* resolveSubscription answered, its cache writes still to be acknowledged:
\* with opts.awaitDataCached the deferred is awaited, else the message is
\* resolved through _resolve.
SubscriptionResolved(r, adc) ==
    /\ delivery[r].pos = "resolve"
    /\ cache' = [cache EXCEPT ![r] = "resolveSubscription"]
    /\ inhand' = [inhand EXCEPT ![r] =
                    [data |-> MessageData, meta |-> MetaOf(MessageData), analysed |-> "-",
                     cacheControl |-> "-", call |-> NoCall]]
    /\ awaitDataCached' = [awaitDataCached EXCEPT ![r] = adc]
    /\ IF adc
          THEN /\ delivery' = [delivery EXCEPT ![r].pos = "await"]
               /\ UNCHANGED <<result, pc>>
          ELSE Deliver(r, SubscriberOutput)
    /\ UNCHANGED subFrame

\* The deferred _resolveSubscriber awaits has resolved.
SubscriptionAwaited(r) ==
    /\ delivery[r].pos = "await"
    /\ CachePromise(cache[r]) = "resolved"
    /\ awaitDataCached' = [awaitDataCached EXCEPT ![r] = FALSE]
    /\ Deliver(r, SubscriberOutput)
    /\ UNCHANGED <<subFrame, inhand, cache>>

\* The steps of _query.
QuerySteps ==
    \/ \E r \in Req, expired \in BOOLEAN, storeFails \in BOOLEAN :
            CheckHas(r, expired, storeFails)
    \/ \E r \in Req, evicted \in BOOLEAN, storeFails \in BOOLEAN :
            CheckGet(r, evicted, storeFails)
    \/ \E r \in Req : QueryCached(r)
    \/ \E r \in Req, adc \in BOOLEAN : QueryJoins(r, adc)
    \/ \E r \in Req : QueryAnalyzes(r)
    \/ \E r \in Req : AnalyzeThrows(r)
    \/ \E r \in Req, adc \in BOOLEAN : AnalyzeHit(r, adc)
    \/ \E r \in Req, answer \in {"partial", "miss"} : AnalyzeMiss(r, answer)
    \/ \E r \in Req, error \in ExecutorErrors : QueryFetchFails(r, error)
    \/ \E r \in Req, data \in Data : QueryFetched(r, data)
    \/ \E r \in Req : ResolveQueryThrows(r)
    \/ \E r \in Req, adc \in BOOLEAN : ResolveQuery(r, adc)
    \/ \E r \in Req : ResponseSetFails(r)

\* The steps of _mutation.
MutationSteps ==
    \/ \E r \in Req, error \in ExecutorErrors : MutationFetchFails(r, error)
    \/ \E r \in Req, data \in Data : MutationFetched(r, data)
    \/ \E r \in Req : ResolveMutationThrows(r)
    \/ \E r \in Req, adc \in BOOLEAN : ResolveMutation(r, adc)

\* The cache writes of a request are acknowledged; _request returns after them.
CacheSteps ==
    \/ \E r \in Req : CacheAck(r)
    \/ \E r \in Req : AwaitCachePromise(r)

\* The steps of the requests that have been dispatched.
Handlers == QuerySteps \/ MutationSteps \/ CacheSteps

Next ==
    \/ \E r \in Req, args \in RequestArgs : Request(r, args)
    \/ \E r \in Req, doc \in Documents : Parse(r, doc)
    \/ Handlers

Spec == Init /\ [][Next]_vars

\* A step of request r once it has been issued: a collaborator call of r
\* returns or throws and the code of r runs up to its next await.
Step(r) ==
    /\ pc[r] # "idle"
    /\ Next
    /\ (pc'[r] # pc[r] \/ cache'[r] # cache[r])

\* Every collaborator call eventually resolves or rejects.
FairSpec == Spec /\ \A r \in Req : WF_vars(Step(r))

\* The client's requests include subscriptions, whose subscriber answers and
\* delivers messages.
SubscriptionNext ==
    \/ Next
    \/ \E r \in Req, doc \in SubscriptionDocuments :
            /\ Cardinality({s \in Req : op[s] = "subscription"}) < MaxSubscriptions
            /\ Parse(r, doc)
    \/ \E r \in Req : SubscribeFails(r)
    \/ \E r \in Req : SubscribeStream(r)
    \/ \E r \in Req, msg \in Messages : SubscribeResult(r, msg)
    \/ \E r \in Req, msg \in Messages : Message(r, msg)
    \/ \E r \in Req : ResolveSubscriptionThrows(r)
    \/ \E r \in Req, adc \in BOOLEAN : SubscriptionResolved(r, adc)
    \/ \E r \in Req : SubscriptionAwaited(r)

SubscriptionSpec == Init /\ [][SubscriptionNext]_vars

\* The document requested while the client's cache is cleared: one query.
ClearDocuments == {[class |-> "ok", hash |-> "q1"]}

\* The client's requests, all for one query, run while clearCache is called,
\* once; the clear() calls of the stores succeed.
ClearNext ==
    \/ \E r \in Req : Request(r, "ok")
    \/ \E r \in Req, doc \in ClearDocuments : Parse(r, doc)
    \/ QuerySteps
    \/ CacheSteps
    \/ ClearCache
    \/ \E store \in ClearedStores : ClearAck(store)

ClearSpec == Init /\ [][ClearNext]_vars

\* The stores default to indexedDB and redis, which outlive a client: the
\* record a client of an earlier session wrote for a query is in the stores
\* when this client is constructed.
PersistedQuery == "q1"

PersistedData == "d1"

WarmInit ==
    /\ pc = [r \in Req |-> "idle"]
    /\ awaitDataCached = [r \in Req |-> FALSE]
    /\ input = [r \in Req |-> "-"]
    /\ op = [r \in Req |-> "-"]
    /\ hash = [r \in Req |-> NoHash]
    /\ sequential = [r \in Req |-> TRUE]
    /\ cached = [r \in Req |-> NoCached]
    /\ inhand = [r \in Req |-> NoInhand]
    /\ result = [r \in Req |-> NoResult]
    /\ cache = [r \in Req |-> "none"]
    /\ execCalls = [r \in Req |-> 0]
    /\ analyseCalls = [r \in Req |-> 0]
    /\ active = {}
    /\ pending = [h \in Hashes |-> <<>>]
    /\ responses = [h \in Hashes |->
                      IF h = PersistedQuery
                         THEN [present |-> TRUE, data |-> PersistedData,
                               meta |-> MetaOf(PersistedData)]
                         ELSE NoRecord]
    /\ tier = [h \in Hashes |->
                 IF h = PersistedQuery
                    THEN [cov |-> "full", data |-> PersistedData]
                    ELSE [cov |-> "none", data |-> NoData]]
    /\ delivery = [r \in Req |-> NoDelivery]
    /\ clearing = NotClearing
    /\ instance = NoClient
    /\ built = 0
    /\ creates = [c \in Calls |-> NoCreate]

\* The client's requests, all for the persisted query.
WarmNext ==
    \/ \E r \in Req : Request(r, "ok")
    \/ \E r \in Req, doc \in ClearDocuments : Parse(r, doc)
    \/ QuerySteps
    \/ CacheSteps

WarmSpec == WarmInit /\ [][WarmNext]_vars

(***************************************************************************)
(* ClientHandl.create.                                                     *)
(***************************************************************************)

\* The args of create(args): whether they are a plain object, their
\* newInstance, and whether the constructor accepts the rest of them.
CreateArgs ==
    {[plain |-> p, newInstance |-> n, valid |-> v] :
        p \in BOOLEAN, n \in BOOLEAN, v \in BOOLEAN}

\* What the steps of create leave alone.
createFrame == <<pc, awaitDataCached, input, op, hash, sequential, cached, inhand,
                 result, cache, execCalls, analyseCalls, registryVars, storeVars,
                 delivery, clearing>>

\* if (instance && isPlainObject(args) && !args.newInstance) return instance.
ReturnsInstance(args) == instance # NoClient /\ args.plain /\ ~args.newInstance

\* new ClientHandl(args) throws: args is no plain object, or the constructor
\* collected errors about them.
ConstructorThrows(args) == ~args.plain \/ ~args.valid

\* create(args) up to its first await: the registered instance is returned, or
\* the constructor throws and create rejects, or a client is constructed and
\* its cache is being created.
Create(c, args) ==
    /\ creates[c].pos = "idle"
    /\ IF ReturnsInstance(args)
          THEN /\ creates' = [creates EXCEPT ![c] =
                                [pos |-> "done", args |-> args,
                                 client |-> instance, out |-> "ok"]]
               /\ UNCHANGED built
          ELSE IF ConstructorThrows(args)
                  THEN /\ creates' = [creates EXCEPT ![c] =
                                        [pos |-> "done", args |-> args,
                                         client |-> NoClient, out |-> "err"]]
                       /\ UNCHANGED built
                  ELSE /\ built' = built + 1
                       /\ creates' = [creates EXCEPT ![c] =
                                        [pos |-> "cache", args |-> args,
                                         client |-> built + 1, out |-> "none"]]
    /\ UNCHANGED <<instance, createFrame>>

\* instance = client, after the cache of the client was created.
Registered(c) == creates[c].client

\* _createCache resolved: the client becomes the instance, which is returned.
CacheCreated(c) ==
    /\ creates[c].pos = "cache"
    /\ instance' = Registered(c)
    /\ creates' = [creates EXCEPT ![c].pos = "done", ![c].client = Registered(c),
                                  ![c].out = "ok"]
    /\ UNCHANGED <<built, createFrame>>

\* _createCache rejected: so does create.
CacheCreateFails(c) ==
    /\ creates[c].pos = "cache"
    /\ creates' = [creates EXCEPT ![c].pos = "done", ![c].client = NoClient,
                                  ![c].out = "err"]
    /\ UNCHANGED <<instance, built, createFrame>>

CreateNext ==
    \/ \E c \in Calls, args \in CreateArgs : Create(c, args)
    \/ \E c \in Calls : CacheCreated(c)
    \/ \E c \in Calls : CacheCreateFails(c)

CreateSpec == Init /\ [][CreateNext]_vars

(***************************************************************************)
(* Properties.                                                             *)
(***************************************************************************)

InFlight(r) == pc[r] \notin {"idle", "done"}

\* The request that holds the active entry of its queryHash.
Owns(r) == pc[r] \in {"analyze", "fetch", "resolve"}

AllSettled == \A r \in Req : pc[r] \in {"idle", "done"}

\* C1: two request(Q) calls that overlap in time (both are in flight at the same
\* moment) never both reach the executor: at most one Executor.resolve call is
\* made for their fingerprint.
C1_OneExecutorCallWhenOverlapping ==
    \A a \in Req : \A b \in Req \ {a} :
        (InFlight(a) /\ InFlight(b) /\ op[a] = "query" /\ op[b] = "query"
            /\ hash[a] = hash[b])
            => execCalls[a] + execCalls[b] <= 1

\* C2: when the request that holds the active entry of H succeeds, every caller
\* pending on H is resolved with the same data, the same cacheMetadata and the
\* same queryHash as that request.
C2_PendingResolvedLikeOwner ==
    [][\A r \in Req :
          (Owns(r) /\ result'[r].kind = "ok")
              => \A s \in Range(pending[hash[r]]) :
                    /\ pc'[s] = "done"
                    /\ result'[s].kind = "ok"
                    /\ result'[s].data = result'[r].data
                    /\ result'[s].meta = result'[r].meta
                    /\ result'[s].queryHash = result'[r].queryHash
                    /\ result'[s].queryHash = hash[r]]_vars

C2_Witness ==
    \E r \in Req : \E s \in Req \ {r} :
        /\ result[r].kind = "ok" /\ result[r].via = "fetch"
        /\ result[s].kind = "ok" /\ result[s].via = "coalesced"
        /\ hash[s] = hash[r]
        /\ result[s].data = result[r].data
        /\ result[s].meta = result[r].meta
        /\ result[s].queryHash = result[r].queryHash

\* C3: when the fetch of the active query request for H fails, that caller and
\* every caller pending on H are rejected with the same error, and after that
\* step neither registry holds an entry for H.
C3_FetchErrorDrainsRegistries ==
    [][\A r \in Req :
          (pc[r] = "fetch" /\ pc'[r] = "done")
              => /\ result'[r].kind = "err"
                 /\ hash[r] \notin active'
                 /\ pending'[hash[r]] = <<>>
                 /\ \A s \in Range(pending[hash[r]]) :
                       /\ pc'[s] = "done"
                       /\ result'[s].kind = "err"
                       /\ result'[s].error = result'[r].error]_vars

C3_Witness ==
    \E r \in Req : \E s \in Req \ {r} : \E t \in Req \ {r, s} :
        /\ op[r] = "query" /\ result[r].kind = "err" /\ result[r].via = "fetch"
        /\ hash[s] = hash[r] /\ hash[t] = hash[r]
        /\ result[s].kind = "err" /\ result[s].via = "coalesced"
        /\ result[t].kind = "err" /\ result[t].via = "coalesced"
        /\ result[s].error = result[r].error /\ result[t].error = result[r].error
        /\ hash[r] \notin active /\ pending[hash[r]] = <<>>

\* C4: the active entry of H is held by a request that is still between marking
\* H active and resolving, so it is gone once that request has completed or
\* failed at any stage; once every issued request has settled, both registries
\* are empty.
C4_ActiveEntryRemovedOnEveryOutcome ==
    /\ \A h \in active : \E r \in Req : hash[r] = h /\ Owns(r)
    /\ AllSettled => (active = {} /\ \A h \in Hashes : pending[h] = <<>>)


\* C5: when every collaborator call eventually resolves or rejects, every
\* caller appended to a pending list is eventually resolved or rejected.
C5_PendingEventuallySettled ==
    \A s \in Req : (pc[s] = "pending") ~> (pc[s] = "done")

C7_MutationNeverWritesResponses ==
    [][\A r \in Req :
          (op'[r] = "mutation" /\ (pc'[r] # pc[r] \/ cache'[r] # cache[r]))
              => responses' = responses]_vars

C7_Witness ==
    \E r \in Req :
        /\ op[r] = "mutation" /\ pc[r] = "done" /\ result[r].kind = "ok"
        /\ cache[r] = "done"
        /\ tier[MutatedQuery].cov # "none"
        /\ ~responses[hash[r]].present

\* C8: a mutation request goes straight to the executor: it never checks the
\* responses store, never analyses, never joins a pending list, and has
\* exactly one executor call, whatever the stores hold and whatever else is in
\* flight.
C8_MutationAlwaysFetchesOnce ==
    \A r \in Req :
        op[r] = "mutation"
            => /\ pc[r] \in {"mfetch", "mresolve", "await", "done"}
               /\ execCalls[r] = 1
               /\ analyseCalls[r] = 0
               /\ ~cached[r].found
               /\ result[r].via \notin {"responses", "coalesced", "analyze"}
               /\ \A h \in Hashes : r \notin Range(pending[h])
               /\ hash[r] \notin active

C8_Witness ==
    \E r \in Req : \E s \in Req \ {r} :
        /\ op[r] = "mutation" /\ op[s] = "mutation" /\ hash[r] = hash[s]
        /\ pc[r] = "mfetch" /\ pc[s] = "mfetch"
        /\ execCalls[r] = 1 /\ execCalls[s] = 1
        /\ \E h \in QueryHashes : responses[h].present

\* C9: a coalesced query caller that asked for awaitDataCached returns only
\* after the cache writes of the request that resolved it have completed.
C9_CoalescedCallerAwaitsCacheWrites ==
    [][\A s \in Req :
          (pc[s] = "pending" /\ awaitDataCached[s] /\ result'[s].kind = "ok")
              => \A r \in Req :
                    (Owns(r) /\ hash[r] = hash[s]) => cache'[r] = "done"]_vars

BadInputs == {"q", "o", "qo", "f", "syntax", "invalid"}

\* C10: a request whose arguments are malformed, or whose document fails to
\* parse or validate, is rejected at the step that examines them; that step
\* changes no store and no registry and makes no analyse or executor call, and
\* the request is never dispatched.
C10_RejectionBeforeDispatchHasNoEffect ==
    [][\A r \in Req :
          (pc[r] \in {"idle", "parse"} /\ pc'[r] # pc[r] /\ input'[r] \in BadInputs)
              => /\ pc'[r] = "done"
                 /\ result'[r].kind = "err"
                 /\ op'[r] = "-" /\ hash'[r] = NoHash
                 /\ UNCHANGED <<active, pending, responses, tier, cache,
                                execCalls, analyseCalls>>]_vars

C10_Witness ==
    \E r \in Req : \E s \in Req \ {r} :
        /\ input[r] = "invalid" /\ pc[r] = "done" /\ result[r].kind = "err"
        /\ execCalls[r] = 0 /\ analyseCalls[r] = 0 /\ cache[r] = "none"
        /\ pc[s] = "fetch" /\ hash[s] \in active
        /\ \E h \in QueryHashes : responses[h].present

\* C11: a request whose document holds more than one operation definition is
\* rejected with the dedicated error at the step that counts the operations:
\* no handler is dispatched (no operation, no fingerprint, no position in a
\* handler), the executor and analyse are not called, and the registries and
\* the stores are unchanged.
C11_MultipleOperationsRejected ==
    [][\A r \in Req :
          (pc[r] = "parse" /\ pc'[r] # pc[r] /\ input'[r] = "multi")
              => /\ pc'[r] = "done"
                 /\ result'[r] = Rejected("TypeError:operations", "request")
                 /\ op'[r] = "-" /\ hash'[r] = NoHash
                 /\ UNCHANGED <<active, pending, responses, tier, cache,
                                execCalls, analyseCalls>>]_vars

C11_Witness ==
    \E r \in Req : \E s \in Req \ {r} :
        /\ input[r] = "multi" /\ pc[r] = "done"
        /\ result[r].kind = "err" /\ result[r].error = "TypeError:operations"
        /\ result[r].error \notin {RequestRejection([class |-> c, hash |-> "q1"]) :
                                      c \in {"syntax", "invalid"}}
        /\ execCalls[r] = 0 /\ analyseCalls[r] = 0 /\ cache[r] = "none"
        /\ Owns(s) /\ \E h \in QueryHashes : responses[h].present

\* C12: a query or mutation request whose fetch failed has settled with the
\* rejection without a resolveQuery / resolveMutation call: it has no cache
\* writes started or done, so nothing of it reaches the data-entities,
\* query-paths or responses stores.
C12_FetchFailureWritesNothing ==
    \A r \in Req :
        (result[r].kind = "err" /\ result[r].via = "fetch")
            => /\ pc[r] = "done"
               /\ cache[r] = "none"
               /\ inhand[r].data = NoData

C12_Witness ==
    \E r \in Req : \E s \in Req \ {r} :
        /\ op[r] = "query" /\ result[r].kind = "err" /\ result[r].via = "fetch"
        /\ op[s] = "mutation" /\ result[s].kind = "err" /\ result[s].via = "fetch"
        /\ cache[r] = "none" /\ cache[s] = "none"
        /\ \A h \in Hashes : ~responses[h].present /\ tier[h].cov = "none"

\* C13: a response-cache check of a query whose read of the responses store
\* (has or get) threw ends without a cached response and without settling the
\* request, and the request's next step is the active-registry check: it joins
\* the pending list or marks the fingerprint active and calls analyse.
C13_StoreReadErrorIsAMiss ==
    [][\A r \in Req :
          /\ cached'[r].readFailed
                => /\ pc'[r] = "checked"
                   /\ ~cached'[r].found
                   /\ result'[r] = NoResult
          /\ (cached[r].readFailed /\ pc'[r] # pc[r])
                => /\ pc'[r] \in {"pending", "analyze"}
                   /\ result'[r] = NoResult
                   /\ pc'[r] = "analyze" => analyseCalls'[r] = 1]_vars

C13_Witness ==
    \E r \in Req :
        /\ pc[r] = "analyze" /\ analyseCalls[r] = 1 /\ result[r] = NoResult
        /\ responses[hash[r]].present
        /\ \E s \in Req \ {r} :
              /\ pc[s] = "checked" /\ cached[s].readFailed /\ hash[s] = hash[r]

\* C14: when the responses-store write of a query request fails, nobody's
\* result changes: the request keeps its successful result, a caller that is
\* awaiting the cachePromise then returns that result, and the pending callers
\* it resolved keep theirs.
C14_WriteErrorKeepsResult ==
    [][\A r \in Req :
          /\ (cache'[r] = "dropped" /\ cache[r] # "dropped")
                => /\ result' = result
                   /\ pc' = pc
          /\ cache'[r] = "dropped"
                => /\ result'[r].kind = "ok"
                   /\ result'[r] = result[r]
                   /\ pc'[r] \in {"await", "done"}
                   /\ pc[r] = "done" => pc'[r] = "done"]_vars

C14_Witness ==
    \E r \in Req : \E s \in Req \ {r} :
        /\ cache[r] = "dropped" /\ pc[r] = "await" /\ awaitDataCached[r]
        /\ result[r].kind = "ok" /\ result[r].via = "analyze"
        /\ hash[s] = hash[r] /\ pc[s] = "done"
        /\ result[s].kind = "ok" /\ result[s].via = "coalesced"
        /\ result[s].data = result[r].data

\* C15: when a store write of a request has failed, the request's cachePromise
\* is rejected.
C15_WriteErrorRejectsCachePromise ==
    \A r \in Req : cache[r] = "dropped" => CachePromise(cache[r]) = "rejected"

\* C16: within a query request the executor is called only in the step in which
\* its one analyse call has answered (with a query to fetch), resolveQuery is
\* called only in the step in which its one executor call has answered with
\* data, and the writes of resolveQuery start only when resolveQuery has
\* answered; a request whose analyse or fetch failed never gets to resolveQuery.
C16_AnalyseThenFetchThenResolve ==
    [][\A r \in Req :
          op'[r] = "query"
            => /\ execCalls'[r] # execCalls[r]
                    => /\ pc[r] = "analyze" /\ analyseCalls[r] = 1
                       /\ execCalls[r] = 0
                       /\ pc'[r] = "fetch"
                       /\ inhand'[r].analysed \in {"partial", "miss"}
               /\ (pc'[r] = "resolve" /\ pc[r] # "resolve")
                    => /\ pc[r] = "fetch" /\ execCalls[r] = 1
                       /\ inhand'[r].data \in Data
                       /\ result'[r] = NoResult
               /\ (cache'[r] = "resolveQuery" /\ cache[r] # "resolveQuery")
                    => /\ pc[r] = "resolve"
                       /\ inhand[r].data \in Data
               /\ (pc[r] \in {"analyze", "fetch"} /\ result'[r].kind = "err")
                    => /\ pc'[r] = "done"
                       /\ cache'[r] = "none"]_vars

C16_Witness ==
    \E r \in Req :
        /\ op[r] = "query" /\ result[r].kind = "ok" /\ result[r].via = "fetch"
        /\ analyseCalls[r] = 1 /\ execCalls[r] = 1
        /\ cache[r] = "resolveQuery"
        /\ \E s \in Req \ {r} :
              /\ op[s] = "query" /\ result[s].kind = "err" /\ result[s].via = "analyze"
              /\ analyseCalls[s] = 1 /\ execCalls[s] = 0 /\ cache[s] = "none"

\* C17: a request is settled at most once and what it is settled with is either
\* a result (data, no error) or a rejection (an error, no data), never both;
\* when analyse had served part of the query from the cache and the fetch of
\* the rest fails, the caller and every pending caller get the rejection alone.
C17_SettledOnceWithResultOrRejection ==
    [][\A r \in Req :
          /\ result[r].kind # "none" => result'[r] = result[r]
          /\ result'[r].kind = "ok"
                => result'[r].error = NoError /\ result'[r].data \in Data
          /\ result'[r].kind = "err"
                => result'[r].error # NoError /\ result'[r].data = NoData
                                              /\ result'[r].meta = NoMeta
          /\ (pc[r] = "fetch" /\ inhand[r].analysed = "partial" /\ pc'[r] = "done")
                => \A s \in {r} \cup Range(pending[hash[r]]) :
                      /\ result'[s].kind = "err"
                      /\ result'[s].data = NoData
                      /\ result'[s].error = result'[r].error]_vars

C17_Witness ==
    \E r \in Req : \E s \in Req \ {r} :
        /\ op[r] = "query" /\ inhand[r].analysed = "partial"
        /\ result[r].kind = "err" /\ result[r].via = "fetch" /\ result[r].data = NoData
        /\ hash[s] = hash[r]
        /\ result[s].kind = "err" /\ result[s].via = "coalesced" /\ result[s].data = NoData

\* C18: the handling of a subscription message that carries an errors field
\* gives the consumer of the subscription a result, not a rejection.
C18_MessageWithErrorsIsDelivered ==
    \A r \in Req :
        (delivery[r].pos = "done" /\ delivery[r].msg \in {"errors", "plainErrors"})
            => delivery[r].out = "ok"

\* C19: when clearCache returns and no cache write was acknowledged since it was
\* called, the responses, query-path and data-entity stores are empty; no step
\* of clearCache changes the active or the pending registry, or the position
\* or the result of any request.
C19_ClearCacheEmptiesStoresOnly ==
    [][/\ (clearing'.state # clearing.state \/ clearing'.todo # clearing.todo)
            => UNCHANGED <<active, pending, pc, result, cache>>
       /\ (clearing.state = "run" /\ clearing'.state = "done" /\ clearing'.clean)
            => \A h \in Hashes : ~responses'[h].present /\ tier'[h].cov = "none"]_vars

C19_Witness ==
    /\ clearing.state = "done" /\ clearing.clean
    /\ \A h \in Hashes : ~responses[h].present /\ tier[h].cov = "none"
    /\ \E w \in Req : \E r \in Req \ {w} : \E s \in Req \ {w, r} :
          /\ op[w] = "query" /\ result[w].via = "fetch" /\ cache[w] = "done"
          /\ Owns(r) /\ hash[r] \in active
          /\ pc[s] = "pending" /\ pending[hash[r]] = <<s>>

\* C20: a query that finds a response record for its hash H at the response
\* cache check is answered from that record alone: the cached response is the
\* stored record, the result carries its data and queryHash H, analyse and the
\* executor are never called for the request, and the step changes neither
\* the active nor the pending registry nor any other caller.
C20_HitAnswersFromRecordAlone ==
    [][\A r \in Req :
          /\ (pc[r] = "get" /\ pc'[r] = "checked" /\ cached'[r].found)
                => /\ responses[hash[r]].present
                   /\ cached'[r].data = responses[hash[r]].data
          /\ (pc[r] = "checked" /\ cached[r].found /\ pc'[r] # pc[r])
                => /\ pc'[r] = "done"
                   /\ result'[r].kind = "ok"
                   /\ result'[r].via = "responses"
                   /\ result'[r].data = cached[r].data
                   /\ result'[r].queryHash = hash[r]
                   /\ UNCHANGED <<active, pending, execCalls, analyseCalls, cache>>
                   /\ \A s \in Req \ {r} : pc'[s] = pc[s] /\ result'[s] = result[s]
          /\ result'[r].via = "responses"
                => execCalls'[r] = 0 /\ analyseCalls'[r] = 0]_vars

C20_Witness ==
    \E o \in Req : \E s \in Req \ {o} : \E r \in Req \ {o, s} :
        /\ Owns(o) /\ hash[o] \in active /\ hash[o] = hash[r]
        /\ pc[s] = "pending" /\ pending[hash[o]] = <<s>>
        /\ pc[r] = "done" /\ result[r].kind = "ok" /\ result[r].via = "responses"
        /\ result[r].data = responses[hash[r]].data
        /\ result[r].queryHash = hash[r]

\* C21: when analyze answers with cachedData and cacheMetadata the request
\* short-circuits: the executor and resolveQuery are not called for it, a write
\* to responses of the analysed metadata and data is started under its hash,
\* with the printed "query" cache control or else the default one, the caller
\* is given the cached data, its pending callers are settled with it and the
\* hash leaves both registries.
C21_AnalyseHitShortCircuits ==
    [][\A r \in Req :
          /\ (pc[r] = "analyze" /\ result'[r].kind = "ok" /\ result[r].kind # "ok")
                => /\ result'[r].via = "analyze"
                   /\ tier[hash[r]].cov = "full"
                   /\ result'[r].data = tier[hash[r]].data
                   /\ result'[r].queryHash = hash[r]
                   /\ execCalls'[r] = 0
                   /\ cache'[r] = "responses.set"
                   /\ inhand'[r].data = tier[hash[r]].data
                   /\ inhand'[r].meta = MetaOf(tier[hash[r]].data)
                   /\ inhand'[r].cacheControl =
                         (IF MetaOf(tier[hash[r]].data) = "cc"
                             THEN "cc" ELSE DefaultCacheControls("query"))
                   /\ hash[r] \notin active'
                   /\ pending'[hash[r]] = <<>>
                   /\ \A s \in Range(pending[hash[r]]) :
                         /\ pc'[s] = "done"
                         /\ result'[s].kind = "ok"
                         /\ result'[s].data = tier[hash[r]].data
          /\ (result'[r].kind = "ok" /\ result'[r].via = "analyze")
                => /\ execCalls'[r] = 0
                   /\ cache'[r] \in {"responses.set", "done", "dropped"}]_vars

C21_Witness ==
    \E r \in Req : \E s \in Req \ {r} :
        /\ result[r].kind = "ok" /\ result[r].via = "analyze"
        /\ cache[r] = "responses.set"
        /\ inhand[r].cacheControl = DefaultCacheControls("query")
        /\ result[s].kind = "ok" /\ result[s].via = "coalesced"
        /\ hash[s] = hash[r] /\ result[s].data = result[r].data
        /\ hash[r] \notin active

\* C22: when analyze reports a miss or a partial hit, the executor is called
\* once, with the updated query of analyze, and after its answer resolveQuery
\* is called with that same query, with filtered as analyze gave it, and with
\* the hash of the request's own query, not the hash of the updated query.
C22_FetchAndResolveTheUpdatedQuery ==
    [][\A r \in Req :
          /\ (pc[r] = "analyze" /\ pc'[r] = "fetch")
                => /\ inhand'[r].analysed \in {"partial", "miss"}
                   /\ execCalls[r] = 0 /\ execCalls'[r] = 1
                   /\ inhand'[r].call.to = "executor"
                   /\ inhand'[r].call.query =
                         (IF inhand'[r].analysed = "partial"
                             THEN [of |-> hash[r], fields |-> "missing"]
                             ELSE [of |-> hash[r], fields |-> "all"])
          /\ (pc[r] = "fetch" /\ pc'[r] = "resolve")
                => /\ execCalls'[r] = 1
                   /\ inhand'[r].call.to = "resolveQuery"
                   /\ inhand'[r].call.query = inhand[r].call.query
                   /\ inhand'[r].call.filtered = (inhand[r].analysed = "partial")
                   /\ inhand'[r].call.queryHash = hash[r]
                   /\ inhand'[r].call.queryHash \in QueryHashes
          /\ op[r] = "query" => execCalls'[r] <= 1]_vars

C22_Witness ==
    \E r \in Req :
        /\ pc[r] = "resolve" /\ execCalls[r] = 1
        /\ inhand[r].call.to = "resolveQuery"
        /\ inhand[r].call.filtered
        /\ inhand[r].call.query.fields = "missing"
        /\ inhand[r].call.queryHash = hash[r]
        /\ HashRequest(inhand[r].call.query) # hash[r]

\* C23: between suspension points a hash with a non-empty pending list is
\* active; a caller is appended to the pending list of a hash only while the
\* hash is active, and a hash never leaves active with its pending list left
\* in place.
C23_PendingOnlyUnderActive ==
    [][\A h \in Hashes :
          /\ pending'[h] # <<>> => h \in active'
          /\ Len(pending'[h]) > Len(pending[h]) => h \in active
          /\ (h \in active /\ h \notin active') => pending'[h] = <<>>]_vars

C23_Witness ==
    \E o \in Req : \E h \in QueryHashes :
        /\ pc[o] = "resolve" /\ hash[o] = h /\ h \in active
        /\ Len(pending[h]) = 2
        /\ \A s \in Range(pending[h]) : pc[s] = "pending" /\ hash[s] = h

\* C24: for every hash at most one query request is between marking the hash
\* active and resolving it, so at most one executor call for the hash is
\* outstanding; the request that finds the hash not active marks it active in
\* the same step; and the hash leaves active only by a step of the request
\* that marked it.
C24_OneOwnerPerHash ==
    [][/\ \A r, s \in Req :
             (Owns(r)' /\ Owns(s)' /\ hash'[r] = hash'[s]) => r = s
       /\ \A r \in Req :
             (~Owns(r) /\ Owns(r)') => (hash[r] \notin active /\ hash[r] \in active')
       /\ \A h \in Hashes :
             (h \in active /\ h \notin active')
                => \E r \in Req : Owns(r) /\ hash[r] = h /\ ~Owns(r)']_vars

C24_Witness ==
    \E r \in Req : \E s \in Req \ {r} : \E t \in Req \ {r, s} :
        /\ hash[r] = hash[s] /\ hash[s] = hash[t]
        /\ pc[r] = "await" /\ result[r].via = "fetch" /\ execCalls[r] = 1
        /\ pc[s] = "fetch" /\ execCalls[s] = 1
        /\ pc[t] = "pending"
        /\ hash[s] \in active

\* C25: requests of different hashes are independent in the registries: a step
\* changes the active entry and the pending list of at most one hash; a
\* pending caller is settled only by a step in which the owner of its own hash
\* resolves; a caller starts to wait only on its own hash, which is active,
\* and does not wait when only other hashes are active.
C25_HashesAreIndependent ==
    [][/\ \A h1, h2 \in Hashes :
             (/\ (h1 \in active) # (h1 \in active') \/ pending'[h1] # pending[h1]
              /\ (h2 \in active) # (h2 \in active') \/ pending'[h2] # pending[h2])
                => h1 = h2
       /\ \A s \in Req :
             /\ (pc[s] = "pending" /\ pc'[s] # "pending")
                   => /\ \E r \in Req : Owns(r) /\ ~Owns(r)' /\ hash[r] = hash[s]
                      /\ \A h \in Hashes \ {hash[s]} :
                            pending'[h] = pending[h] /\ ((h \in active) = (h \in active'))
             /\ (pc[s] # "pending" /\ pc'[s] = "pending")
                   => /\ hash[s] \in active
                      /\ pending'[hash[s]] = Append(pending[hash[s]], s)
             /\ (pc[s] = "checked" /\ pc'[s] # "checked"
                    /\ ~cached[s].found /\ hash[s] \notin active)
                   => pc'[s] = "analyze"]_vars

C25_Witness ==
    \E r \in Req : \E o \in Req \ {r} : \E s \in Req \ {r, o} :
        /\ hash[r] # hash[o] /\ hash[o] = hash[s]
        /\ pc[r] = "done" /\ result[r].via = "fetch"
        /\ hash[r] \notin active
        /\ Owns(o) /\ hash[o] \in active
        /\ pc[s] = "pending" /\ pending[hash[o]] = <<s>>

\* C26: only a query request that missed the response cache changes the
\* active and pending registries; every step of a mutation request, of a
\* subscription request and of a subscription message leaves both unchanged,
\* and their results carry no queryHash.
C26_RegistriesBelongToQueries ==
    [][/\ (active' # active \/ pending' # pending)
             => \E r \in Req :
                   /\ op[r] = "query"
                   /\ pc[r] \in {"checked", "analyze", "fetch", "resolve"}
                   /\ ~cached[r].found
                   /\ pc'[r] # pc[r]
       /\ \A r \in Req :
             /\ (/\ op[r] \in {"mutation", "subscription"}
                 /\ (pc'[r] # pc[r] \/ delivery'[r] # delivery[r] \/ result'[r] # result[r]))
                   => UNCHANGED <<active, pending>>
             /\ op'[r] \in {"mutation", "subscription"} => result'[r].queryHash = NoHash
       /\ SubscriberOutput.queryHash = NoHash]_vars

C26_Witness ==
    \E o \in Req : \E s \in Req \ {o} : \E t \in Req \ {o, s} :
        /\ Owns(o) /\ hash[o] \in active
        /\ pc[s] = "pending" /\ pending[hash[o]] = <<s>>
        /\ op[t] = "subscription" /\ result[t].kind = "stream"
        /\ delivery[t].pos = "done" /\ delivery[t].out = "ok"

\* C27: the cacheMetadata of every successful result, of the fetching caller,
\* of a response cache hit, of a pending caller, of a mutation and of a
\* subscription result, has a "query" entry: the one the resolve stage
\* supplied, or else the default cache control of the request's operation.
C27_ResultHasQueryCacheability ==
    \A r \in Req :
        result[r].kind = "ok"
            => /\ result[r].meta \notin {"none", NoMeta}
               /\ result[r].meta =
                     (IF MetaOf(result[r].data) = "cc"
                         THEN "cc"
                         ELSE DefaultCacheControls(op[r]))

C27_Witness ==
    \E s \in Req : \E t \in Req \ {s} :
        /\ result[s].kind = "ok" /\ result[s].via = "coalesced"
        /\ result[s].meta = DefaultCacheControls("query")
        /\ op[t] = "subscription" /\ result[t].kind = "ok"
        /\ result[t].meta = DefaultCacheControls("subscription")

\* C28: once an instance is registered, a create call with plain-object args
\* and a falsy newInstance returns it, whatever else the args hold, and
\* constructs nothing; the registered instance is replaced only by a create
\* call with newInstance true that succeeds, whose client later calls are
\* given; a create call that fails leaves the registered instance as it was.
C28_InstanceOnlyReplacedOnRequest ==
    [][\A c \in Calls :
          /\ (/\ creates[c].pos = "idle" /\ creates'[c].pos # "idle"
              /\ instance # NoClient
              /\ creates'[c].args.plain /\ ~creates'[c].args.newInstance)
                => /\ creates'[c].pos = "done" /\ creates'[c].out = "ok"
                   /\ creates'[c].client = instance
                   /\ UNCHANGED <<instance, built>>
          /\ (creates[c].pos = "cache" /\ creates'[c].out = "ok")
                => /\ creates[c].args.newInstance \/ instance = NoClient
                   /\ instance' = creates[c].client
                   /\ creates'[c].client = instance'
          /\ (creates[c].pos # "done" /\ creates'[c].out = "err")
                => UNCHANGED instance]_vars

====
